---------------------------- MODULE Spec2Model ----------------------------
(***************************************************************************)
(* SplitBite: the receipt documents, the per-user restaurant aggregates    *)
(* (the spend ledger) and the receipt routes that mutate them.             *)
(*                                                                         *)
(* Money is a JavaScript number in the source.  It is modelled as an exact *)
(* rational <<numerator, denominator>> in lowest terms, so that division   *)
(* (price / |assignedTo|, subtotal / allocated * tax) is computed and not  *)
(* assumed away.                                                           *)
(***************************************************************************)
EXTENDS Integers, Sequences, FiniteSets, TLC

VARIABLES
    receipts,      \* the Receipt collection: id -> persisted document
    nextId,        \* the next fresh document id (ids are never reused)
    restaurants,   \* the Restaurant collection of the user: name -> document
    reqs,          \* requests served step by step: request -> handler state
    fin,           \* history per receipt id: finalize calls and what they added
    lastFin        \* history: when the request served last was a finalize,
                   \* its receipt id and the totalSpent it found

vars == <<receipts, nextId, restaurants, reqs, fin, lastFin>>

-----------------------------------------------------------------------------
(* Bounds of the model. *)

MaxReceipts == 1      \* uploads in one history
MaxFinalize == 2      \* finalize calls per receipt in one history
MaxLedgerReceipts == 2   \* uploads in one history of the ledger
MaxRequests == 2      \* finalize requests in flight at once
MaxVisitReceipts == 3     \* receipts uploaded in a history of uploads and deletions

-----------------------------------------------------------------------------
(* Numbers. *)

RECURSIVE GCD(_, _)
GCD(a, b) == IF b = 0 THEN a ELSE GCD(b, a % b)

Abs(n) == IF n < 0 THEN -n ELSE n

Norm(n, d) ==
    LET g == GCD(Abs(n), d)
    IN  IF n = 0 THEN <<0, 1>> ELSE <<n \div g, d \div g>>

Num(n) == <<n, 1>>
Zero == <<0, 1>>

RAdd(a, b) == Norm(a[1] * b[2] + b[1] * a[2], a[2] * b[2])
RSub(a, b) == Norm(a[1] * b[2] - b[1] * a[2], a[2] * b[2])
RMul(a, b) == Norm(a[1] * b[1], a[2] * b[2])
\* a / b for b > 0
RDiv(a, b) == Norm(a[1] * b[2], a[2] * b[1])
RLt(a, b) == a[1] * b[2] < b[1] * a[2]
\* Math.max(0, a)
RMax0(a) == IF RLt(a, Zero) THEN Zero ELSE a

RECURSIVE RSum(_)
RSum(s) == IF s = <<>> THEN Zero ELSE RAdd(s[1], RSum(Tail(s)))

-----------------------------------------------------------------------------
(* Sequences. *)

Range(s) == {s[i] : i \in DOMAIN s}

-----------------------------------------------------------------------------
(* The people a request may name and the data an extraction may return. *)

Me  == [id |-> "person_me_1", name |-> "Me"]
Bob == [id |-> "p_bob", name |-> "Bob"]

\* request bodies of POST /:id/people
PeopleInputs == {<<>>, <<Me>>, <<Me, Bob>>}

\* request bodies of PUT /:id/items/:itemIndex/assign
AssignInputs == {<<>>, <<Me.id>>, <<Me.id, Bob.id>>}

Dates == {1, 2}

\* what extractReceiptData returned; date 0 stands for a missing or
\* unparseable date, restaurantName "" for a missing name
Extracted ==
    { [restaurantName |-> "Joes", date |-> d,
       items |-> << [name |-> "Burger", quantity |-> 1, price |-> Num(12)],
                    [name |-> "Fries", quantity |-> 2, price |-> Num(3)] >>,
       subtotal |-> Num(18), tax |-> Num(2), tip |-> Num(4),
       total |-> Num(24)] : d \in {0, 1, 2} }
    \cup
    { [restaurantName |-> "", date |-> d,
       items |-> << [name |-> "Soup", quantity |-> 1, price |-> Num(5)] >>,
       subtotal |-> Num(5), tax |-> Num(1), tip |-> Zero,
       total |-> Zero] : d \in {0, 1} }

\* the userAmount a finalize request may carry (-1 is rejected)
Amounts == {Num(-1), Num(1), Num(2)}

-----------------------------------------------------------------------------
(* SplitCalculationService. *)

\* a sharedWith that lists every assignee
sharedWith_Everyone(item, personId) == item.assignedTo

\* item.assignedTo.filter(id => id !== personId)
sharedWith(item, personId) ==
    SelectSeq(item.assignedTo, LAMBDA id : id # personId)

\* the contribution records of one person, in item order: one record for
\* each occurrence of the person in an item's assignedTo
RECURSIVE ItemShares(_, _)
ItemShares(items, personId) ==
    IF items = <<>> THEN <<>>
    ELSE LET item == items[1]
             totalItemPrice == RMul(item.price, Num(item.quantity))
             occurrences == SelectSeq(item.assignedTo,
                                      LAMBDA id : id = personId)
         IN  [k \in DOMAIN occurrences |->
                 [itemName |-> item.name,
                  fullPrice |-> totalItemPrice,
                  shareAmount |-> RDiv(totalItemPrice,
                                       Num(Len(item.assignedTo))),
                  sharedWith |-> sharedWith(item, personId)]]
             \o ItemShares(Tail(items), personId)

\* a subtotal that charges every assignee the item's full price
PersonSubtotal_FullPrice(items, personId) ==
    LET shares == ItemShares(items, personId)
    IN  RSum([i \in DOMAIN shares |-> shares[i].fullPrice])

PersonSubtotal(items, personId) ==
    LET shares == ItemShares(items, personId)
    IN  RSum([i \in DOMAIN shares |-> shares[i].shareAmount])

\* the error calculateSplit throws instead of returning
calculateSplitThrows_Never(receipt) == FALSE

calculateSplitThrows(receipt) == Len(receipt.people) = 0

\* the keys of the splits map in insertion order: a person whose id an earlier
\* person has takes that person's entry
RECURSIVE SplitKeys(_)
SplitKeys(people) ==
    IF people = <<>> THEN <<>>
    ELSE LET front == SplitKeys(SubSeq(people, 1, Len(people) - 1))
             last == people[Len(people)].id
         IN  IF last \in Range(front) THEN front ELSE Append(front, last)

\* the name of the entry of an id: splits.set overwrites, the last person wins
SplitName(people, id) ==
    people[CHOOSE i \in DOMAIN people :
              /\ people[i].id = id
              /\ \A j \in DOMAIN people : people[j].id = id => j <= i].name

\* a share that follows the subtotals in either mode
chargeShare_Proportional(mode, amount, peopleLength, subtotal, totalSubtotalAssigned) ==
    IF RLt(Zero, totalSubtotalAssigned)
    THEN RMul(RDiv(subtotal, totalSubtotalAssigned), amount)
    ELSE Zero

\* a proportional share that falls back on the equal one
chargeShare_EqualWhenUnallocated(mode, amount, peopleLength, subtotal, totalSubtotalAssigned) ==
    IF mode = "equal" \/ ~RLt(Zero, totalSubtotalAssigned)
    THEN RDiv(amount, Num(peopleLength))
    ELSE RMul(RDiv(subtotal, totalSubtotalAssigned), amount)

\* split.taxShare, split.tipShare
chargeShare(mode, amount, peopleLength, subtotal, totalSubtotalAssigned) ==
    IF mode = "equal" THEN RDiv(amount, Num(peopleLength))
    ELSE IF RLt(Zero, totalSubtotalAssigned)
         THEN RMul(RDiv(subtotal, totalSubtotalAssigned), amount)
         ELSE Zero

calculateSplit(receipt) ==
    LET people == receipt.people
        keys == SplitKeys(people)
        subtotalOf(i) == PersonSubtotal(receipt.items, keys[i])
        totalSubtotalAssigned ==
            RSum([i \in DOMAIN keys |-> subtotalOf(i)])
        share(i, mode, amount) ==
            chargeShare(mode, amount, Len(people), subtotalOf(i),
                        totalSubtotalAssigned)
    IN  [i \in DOMAIN keys |->
            LET taxShare == share(i, receipt.taxDistribution, receipt.tax)
                tipShare == share(i, receipt.tipDistribution, receipt.tip)
            IN  [personId |-> keys[i],
                 name |-> SplitName(people, keys[i]),
                 subtotal |-> subtotalOf(i),
                 taxShare |-> taxShare,
                 tipShare |-> tipShare,
                 total |-> RAdd(RAdd(subtotalOf(i), taxShare), tipShare),
                 items |-> ItemShares(receipt.items, keys[i])]]

\* a completeness that a receipt without items has
isReceiptComplete_WithoutItems(receipt) ==
    \A i \in DOMAIN receipt.items : Len(receipt.items[i].assignedTo) > 0

isReceiptComplete(receipt) ==
    IF Len(receipt.items) = 0 THEN FALSE
    ELSE \A i \in DOMAIN receipt.items : Len(receipt.items[i].assignedTo) > 0

getUnassignedItems(receipt) ==
    LET un == SelectSeq(receipt.items, LAMBDA item : Len(item.assignedTo) = 0)
    IN  [i \in DOMAIN un |-> [name |-> un[i].name, price |-> un[i].price,
                              quantity |-> un[i].quantity]]

-----------------------------------------------------------------------------
(* The history variables. *)

\* every id a specification may give a receipt
AllIds == 1..(MaxReceipts + MaxLedgerReceipts + MaxVisitReceipts)

\* calls: finalize requests served for the receipt; applied: those that added
\* to totalSpent; sum: what they added in all; first: userAmount of the first
\* call
NoFin == [calls |-> 0, applied |-> 0, sum |-> Zero, first |-> Zero]

NoCall == [id |-> 0, before |-> Zero]

Spent(rs, name) == IF name \in DOMAIN rs THEN rs[name].totalSpent ELSE Zero

-----------------------------------------------------------------------------
(* The state after the server starts on empty collections. *)

Init ==
    /\ receipts = << >>
    /\ nextId = 1
    /\ restaurants = << >>
    /\ reqs = << >>
    /\ fin = [id \in AllIds |-> NoFin]
    /\ lastFin = NoCall

-----------------------------------------------------------------------------
(* POST /upload *)

NewReceipt(x, now) ==
    [restaurantName |-> IF x.restaurantName = "" THEN "Unknown Restaurant"
                        ELSE x.restaurantName,
     date |-> IF x.date = 0 THEN now ELSE x.date,
     items |-> [i \in DOMAIN x.items |->
                  [name |-> x.items[i].name, quantity |-> x.items[i].quantity,
                   price |-> x.items[i].price, assignedTo |-> <<>>]],
     people |-> <<>>,
     subtotal |-> x.subtotal,
     tax |-> x.tax,
     tip |-> x.tip,
     total |-> IF x.total # Zero THEN x.total ELSE x.subtotal,
     taxDistribution |-> "proportional",
     tipDistribution |-> "proportional",
     splitCalculations |-> <<>>,
     isComplete |-> FALSE]

Put(f, k, v) == [x \in DOMAIN f \cup {k} |-> IF x = k THEN v ELSE f[x]]
Drop(f, k) == [x \in DOMAIN f \ {k} |-> f[x]]

\* receipt.save() and the update of the restaurant history
UploadSave(x, now) ==
    /\ LET receipt == NewReceipt(x, now)
           name == receipt.restaurantName
       IN  /\ receipts' = Put(receipts, nextId, receipt)
           /\ restaurants' =
                IF name \in DOMAIN restaurants
                THEN [restaurants EXCEPT
                        ![name].visitCount = @ + 1,
                        ![name].lastVisit = receipt.date]
                ELSE Put(restaurants, name,
                         [visitCount |-> 1, totalSpent |-> Zero,
                          lastVisit |-> receipt.date])
    /\ nextId' = nextId + 1
    /\ lastFin' = NoCall
    /\ UNCHANGED fin

\* the handler with x for what extractReceiptData returned
Upload(x, now) ==
    /\ UploadSave(x, now)
    /\ UNCHANGED reqs

-----------------------------------------------------------------------------
(* POST /:id/people *)

SetPeople(id, people) ==
    /\ IF id \notin DOMAIN receipts
       THEN UNCHANGED <<receipts, lastFin>>
       ELSE /\ receipts' = [receipts EXCEPT ![id].people = people]
            /\ lastFin' = NoCall
    /\ UNCHANGED <<nextId, restaurants, reqs, fin>>

-----------------------------------------------------------------------------
(* PUT /:id/items/:itemIndex/assign; itemIdx counts from 0 *)

\* the document in memory after the assignment, before the split is computed
Assigned(receipt, itemIdx, assignedTo) ==
    [receipt EXCEPT !.items[itemIdx + 1].assignedTo = assignedTo]

\* a save that leaves the completeness flag as it was read
AssignSaved_KeepingFlag(receipt, itemIdx, assignedTo) ==
    LET r1 == Assigned(receipt, itemIdx, assignedTo)
    IN  [r1 EXCEPT !.splitCalculations = calculateSplit(r1)]

\* the document the handler saves
AssignSaved(receipt, itemIdx, assignedTo) ==
    LET r1 == Assigned(receipt, itemIdx, assignedTo)
        r2 == [r1 EXCEPT !.splitCalculations = calculateSplit(r1)]
    IN  [r2 EXCEPT !.isComplete = isReceiptComplete(r2)]

AssignItem(id, itemIdx, assignedTo) ==
    /\ IF \/ id \notin DOMAIN receipts
          \/ itemIdx >= Len(receipts[id].items)
          \/ calculateSplitThrows(receipts[id])
       THEN UNCHANGED <<receipts, lastFin>>
       ELSE /\ receipts' = [receipts EXCEPT
                              ![id] = AssignSaved(@, itemIdx, assignedTo)]
            /\ lastFin' = NoCall
    /\ UNCHANGED <<nextId, restaurants, reqs, fin>>

-----------------------------------------------------------------------------
(* PUT /:id/distribution; "" stands for a field the body leaves out *)

Distributed(receipt, taxDistribution, tipDistribution) ==
    LET r1 == IF taxDistribution # ""
              THEN [receipt EXCEPT !.taxDistribution = taxDistribution]
              ELSE receipt
        r2 == IF tipDistribution # ""
              THEN [r1 EXCEPT !.tipDistribution = tipDistribution]
              ELSE r1
    IN  [r2 EXCEPT !.splitCalculations = calculateSplit(r2)]

SetDistribution(id, taxDistribution, tipDistribution) ==
    /\ IF id \notin DOMAIN receipts \/ calculateSplitThrows(receipts[id])
       THEN UNCHANGED <<receipts, lastFin>>
       ELSE /\ receipts' = [receipts EXCEPT
                ![id] = Distributed(@, taxDistribution, tipDistribution)]
            /\ lastFin' = NoCall
    /\ UNCHANGED <<nextId, restaurants, reqs, fin>>

-----------------------------------------------------------------------------
(* PUT /:id/finalize-split *)

\* the guard without the test of the flag
FinalizeAdds_IgnoringFlag(receipt, rs) ==
    receipt.restaurantName \in DOMAIN rs

\* the guard of the ledger update
FinalizeAdds(receipt, rs) ==
    receipt.restaurantName \in DOMAIN rs /\ ~receipt.isComplete

\* the Restaurant collection after the ledger update
FinalizeLedger(receipt, rs, userAmount) ==
    IF FinalizeAdds(receipt, rs)
    THEN [rs EXCEPT ![receipt.restaurantName].totalSpent =
                        RAdd(@, userAmount)]
    ELSE rs

FinalizeFlag(receipt) == [receipt EXCEPT !.isComplete = TRUE]

\* the history after a finalize request was served
FinalizeHistory(h, receipt, rs, userAmount) ==
    LET h1 == IF h.calls = 0
              THEN [h EXCEPT !.first = userAmount]
              ELSE h
        h2 == IF FinalizeAdds(receipt, rs)
              THEN [h1 EXCEPT !.applied = @ + 1,
                              !.sum = RAdd(@, userAmount)]
              ELSE h1
    IN  [h2 EXCEPT !.calls = @ + 1]

Finalize(id, userAmount) ==
    /\ id \in DOMAIN receipts => fin[id].calls < MaxFinalize
    /\ IF RLt(userAmount, Zero) \/ id \notin DOMAIN receipts
       THEN UNCHANGED <<receipts, restaurants, fin, lastFin>>
       ELSE /\ restaurants' =
                FinalizeLedger(receipts[id], restaurants, userAmount)
            /\ receipts' = [receipts EXCEPT ![id] = FinalizeFlag(@)]
            /\ fin' = [fin EXCEPT ![id] =
                 FinalizeHistory(@, receipts[id], restaurants, userAmount)]
            /\ lastFin' = [id |-> id,
                           before |-> Spent(restaurants,
                                            receipts[id].restaurantName)]
    /\ UNCHANGED <<nextId, reqs>>

-----------------------------------------------------------------------------
(* The "Me" person's split, as DELETE /:id and recalculate look it up. *)

toLowerCase(s) ==
    CASE s = "Me" -> "me"
      [] s = "Bob" -> "bob"
      [] OTHER -> s

\* personId.includes('person_me_')
includesPersonMe(personId) == personId \in {"person_me_1"}

IsMeCalculation(calc) ==
    toLowerCase(calc.name) = "me" \/ includesPersonMe(calc.personId)

\* meCalculation.total of find(), or 0 when find() returns nothing
MeTotal(receipt) ==
    LET found == SelectSeq(receipt.splitCalculations, IsMeCalculation)
    IN  IF found = <<>> THEN Zero ELSE found[1].total

-----------------------------------------------------------------------------
(* DELETE /:id *)

amountToSubtract(receipt) ==
    IF receipt.isComplete /\ Len(receipt.splitCalculations) > 0
    THEN MeTotal(receipt)
    ELSE Zero

\* the receipts of the same restaurant other than id
OthersOf(id) ==
    {o \in DOMAIN receipts \ {id} :
        receipts[o].restaurantName = receipts[id].restaurantName}

\* date of the first document of sort({date: -1})
MostRecentDate(ids) ==
    CHOOSE d \in {receipts[o].date : o \in ids} :
        \A o \in ids : receipts[o].date <= d

\* the update without the recomputation of lastVisit
DeleteLedger_KeepingLastVisit(id) ==
    LET receipt == receipts[id]
        name == receipt.restaurantName
    IN  IF name \notin DOMAIN restaurants THEN restaurants
        ELSE IF restaurants[name].visitCount - 1 <= 0
             THEN Drop(restaurants, name)
             ELSE [restaurants EXCEPT
                     ![name].visitCount = @ - 1,
                     ![name].totalSpent =
                         RMax0(RSub(@, amountToSubtract(receipt)))]

\* the update that keeps an aggregate without visits
DeleteLedger_KeepingAggregate(id) ==
    LET receipt == receipts[id]
        name == receipt.restaurantName
    IN  IF name \notin DOMAIN restaurants THEN restaurants
        ELSE [restaurants EXCEPT
                ![name].visitCount = IF @ - 1 < 0 THEN 0 ELSE @ - 1,
                ![name].totalSpent =
                    RMax0(RSub(@, amountToSubtract(receipt)))]

DeleteLedger(id) ==
    LET receipt == receipts[id]
        name == receipt.restaurantName
    IN  IF name \notin DOMAIN restaurants THEN restaurants
        ELSE LET visitCount ==
                     IF restaurants[name].visitCount - 1 < 0 THEN 0
                     ELSE restaurants[name].visitCount - 1
                 totalSpent ==
                     RMax0(RSub(restaurants[name].totalSpent,
                                amountToSubtract(receipt)))
             IN  IF visitCount = 0 THEN Drop(restaurants, name)
                 ELSE [restaurants EXCEPT ![name] =
                         [visitCount |-> visitCount,
                          totalSpent |-> totalSpent,
                          lastVisit |-> IF OthersOf(id) # {}
                                        THEN MostRecentDate(OthersOf(id))
                                        ELSE @.lastVisit]]

DeleteReceipt(id) ==
    /\ IF id \notin DOMAIN receipts
       THEN UNCHANGED <<receipts, restaurants, lastFin>>
       ELSE /\ restaurants' = DeleteLedger(id)
            /\ receipts' = Drop(receipts, id)
            /\ lastFin' = NoCall
    /\ UNCHANGED <<nextId, reqs, fin>>

-----------------------------------------------------------------------------
(* DELETE /restaurants/:name *)

RestaurantNames == {"Joes", "Unknown Restaurant"}

DeleteRestaurant(name) ==
    /\ name \in DOMAIN restaurants
    /\ restaurants' = Drop(restaurants, name)
    /\ lastFin' = NoCall
    /\ UNCHANGED <<receipts, nextId, reqs, fin>>

-----------------------------------------------------------------------------
(* POST /restaurants/recalculate *)

RECURSIVE SumMeTotals(_)
SumMeTotals(ids) ==
    IF ids = {} THEN Zero
    ELSE LET o == CHOOSE x \in ids : TRUE
         IN  RAdd(IF Len(receipts[o].splitCalculations) > 0
                  THEN MeTotal(receipts[o]) ELSE Zero,
                  SumMeTotals(ids \ {o}))

newTotal(name) ==
    SumMeTotals({o \in DOMAIN receipts :
                    /\ receipts[o].restaurantName = name
                    /\ receipts[o].isComplete})

Recalculate ==
    /\ restaurants' = [name \in DOMAIN restaurants |->
                         [restaurants[name] EXCEPT
                             !.totalSpent = newTotal(name)]]
    /\ lastFin' = NoCall
    /\ UNCHANGED <<receipts, nextId, reqs, fin>>

-----------------------------------------------------------------------------

ReceiptIds == 1..MaxReceipts
ItemIndexes == 0..2
\* <<taxDistribution, tipDistribution>> of a request body
DistributionInputs ==
    {<<"equal", "equal">>, <<"proportional", "proportional">>, <<"", "">>}

Next ==
    \/ /\ nextId <= MaxReceipts
       /\ \E x \in Extracted, now \in Dates : Upload(x, now)
    \/ \E id \in ReceiptIds, people \in PeopleInputs : SetPeople(id, people)
    \/ \E id \in ReceiptIds, itemIdx \in ItemIndexes,
          assignedTo \in AssignInputs : AssignItem(id, itemIdx, assignedTo)
    \/ \E id \in ReceiptIds, d \in DistributionInputs :
          SetDistribution(id, d[1], d[2])
    \/ \E id \in ReceiptIds, userAmount \in Amounts : Finalize(id, userAmount)
    \/ \E id \in ReceiptIds : DeleteReceipt(id)
    \/ \E name \in RestaurantNames : DeleteRestaurant(name)

(* The ledger over several receipts: the same handlers, with fewer request *)
(* bodies per handler.                                                      *)

LedgerIds == 1..MaxLedgerReceipts
LedgerExtracted == {x \in Extracted : x.date # 0}
LedgerPeopleInputs == {<<Me>>}
LedgerAssignInputs == {<<>>, <<Me.id>>}
LedgerAmounts == {Num(2)}

NextLedger ==
    \/ /\ nextId <= MaxLedgerReceipts
       /\ \E x \in LedgerExtracted, now \in Dates : Upload(x, now)
    \/ \E id \in LedgerIds, people \in LedgerPeopleInputs :
          SetPeople(id, people)
    \/ \E id \in LedgerIds, assignedTo \in LedgerAssignInputs :
          AssignItem(id, 0, assignedTo)
    \/ \E id \in LedgerIds, userAmount \in LedgerAmounts :
          Finalize(id, userAmount)
    \/ \E id \in LedgerIds : DeleteReceipt(id)
    \/ \E name \in RestaurantNames : DeleteRestaurant(name)

SpecLedger == Init /\ [][NextLedger]_vars

(* PUT /:id/finalize-split served concurrently: one step per await of the  *)
(* handler.  A request p holds the documents it loaded; save() writes the   *)
(* fields the handler changed on its own copy.                              *)

Requests == 1..MaxRequests
ConcAmounts == {Num(1), Num(2)}

\* await Receipt.findOne(...)
FinFindReceipt(p, id, userAmount) ==
    /\ p \notin DOMAIN reqs
    /\ ~RLt(userAmount, Zero)
    /\ id \in DOMAIN receipts
    /\ fin[id].calls < MaxFinalize
    /\ reqs' = Put(reqs, p, [id |-> id, userAmount |-> userAmount,
                             pc |-> "findRestaurant",
                             receipt |-> receipts[id],
                             totalSpent |-> Zero])
    /\ fin' = [fin EXCEPT ![id] =
                 [(IF @.calls = 0 THEN [@ EXCEPT !.first = userAmount] ELSE @)
                    EXCEPT !.calls = @ + 1]]
    /\ UNCHANGED <<receipts, nextId, restaurants, lastFin>>

\* await Restaurant.findOne(...), then restaurant.totalSpent += userAmount
FinFindRestaurant(p) ==
    /\ p \in DOMAIN reqs
    /\ reqs[p].pc = "findRestaurant"
    /\ LET r == reqs[p]
       IN  reqs' = [reqs EXCEPT ![p] =
             IF FinalizeAdds(r.receipt, restaurants)
             THEN [r EXCEPT !.pc = "saveRestaurant",
                            !.totalSpent =
                                RAdd(restaurants[r.receipt.restaurantName]
                                         .totalSpent, r.userAmount)]
             ELSE [r EXCEPT !.pc = "saveReceipt"]]
    /\ UNCHANGED <<receipts, nextId, restaurants, fin, lastFin>>

\* await restaurant.save()
FinSaveRestaurant(p) ==
    /\ p \in DOMAIN reqs
    /\ reqs[p].pc = "saveRestaurant"
    /\ LET name == reqs[p].receipt.restaurantName
       IN  restaurants' =
             IF name \in DOMAIN restaurants
             THEN [restaurants EXCEPT
                     ![name].totalSpent = reqs[p].totalSpent]
             ELSE restaurants
    /\ fin' = [fin EXCEPT ![reqs[p].id] =
                 [@ EXCEPT !.applied = @ + 1,
                           !.sum = RAdd(@, reqs[p].userAmount)]]
    /\ reqs' = [reqs EXCEPT ![p].pc = "saveReceipt"]
    /\ UNCHANGED <<receipts, nextId, lastFin>>

\* receipt.isComplete = true; await receipt.save()
FinSaveReceipt(p) ==
    /\ p \in DOMAIN reqs
    /\ reqs[p].pc = "saveReceipt"
    /\ receipts' =
         IF reqs[p].id \in DOMAIN receipts
         THEN [receipts EXCEPT ![reqs[p].id] = FinalizeFlag(@)]
         ELSE receipts
    /\ reqs' = [reqs EXCEPT ![p].pc = "done"]
    /\ UNCHANGED <<nextId, restaurants, fin, lastFin>>

NextConc ==
    \/ /\ nextId <= MaxReceipts
       /\ \E x \in Extracted, now \in Dates : Upload(x, now)
    \/ \E p \in Requests, id \in ReceiptIds, userAmount \in ConcAmounts :
          FinFindReceipt(p, id, userAmount)
    \/ \E p \in Requests : FinFindRestaurant(p)
    \/ \E p \in Requests : FinSaveRestaurant(p)
    \/ \E p \in Requests : FinSaveReceipt(p)

SpecConc == Init /\ [][NextConc]_vars

-----------------------------------------------------------------------------
(* The responses of the handlers that compute a split, and the two read
   handlers GET /:id/split and GET /:id/summary.  A read request p keeps what
   the handler holds when it answers in reqs[p]. *)

\* HTTP status of PUT /:id/items/:itemIndex/assign
AssignStatus(id, itemIdx, assignedTo) ==
    IF id \notin DOMAIN receipts THEN 404
    ELSE IF itemIdx >= Len(receipts[id].items) THEN 400
    ELSE IF calculateSplitThrows(Assigned(receipts[id], itemIdx, assignedTo))
         THEN 500
         ELSE 200

\* HTTP status of PUT /:id/distribution
DistributionStatus(id) ==
    IF id \notin DOMAIN receipts THEN 404
    ELSE IF calculateSplitThrows(receipts[id]) THEN 500 ELSE 200

\* the receipt document a handler holds after calculateSplit(receipt)
\* returned: the function writes only to the accumulators it created
AfterCalculateSplit_StoringSplits(receipt) ==
    [receipt EXCEPT !.splitCalculations = calculateSplit(receipt)]

AfterCalculateSplit(receipt) == receipt

\* Number.prototype.toFixed(2) of a non-negative amount, in cents
toFixed2(a) == (200 * a[1] + a[2]) \div (2 * a[2])

generateShareableSummary(receipt, splits) ==
    [restaurantName |-> receipt.restaurantName,
     date |-> receipt.date,
     total |-> toFixed2(receipt.total),
     people |-> Len(splits),
     lines |-> [i \in DOMAIN splits |->
                  [name |-> splits[i].name,
                   total |-> toFixed2(splits[i].total),
                   items |-> [j \in DOMAIN splits[i].items |->
                                [itemName |-> splits[i].items[j].itemName,
                                 shareAmount |->
                                     toFixed2(splits[i].items[j].shareAmount),
                                 shared |->
                                     splits[i].items[j].sharedWith # <<>>]]]]]

\* GET /:id/split
GetSplit(p, id) ==
    /\ p \notin DOMAIN reqs
    /\ reqs' = Put(reqs, p,
         IF id \notin DOMAIN receipts
         THEN [pc |-> "done", op |-> "split", id |-> id, status |-> 404]
         ELSE IF calculateSplitThrows(receipts[id])
         THEN [pc |-> "done", op |-> "split", id |-> id, status |-> 500,
               receipt |-> receipts[id]]
         ELSE LET splits == calculateSplit(receipts[id])
                  receipt == AfterCalculateSplit(receipts[id])
              IN  [pc |-> "done", op |-> "split", id |-> id, status |-> 200,
                   receipt |-> receipt,
                   splits |-> splits,
                   unassignedItems |-> getUnassignedItems(receipt),
                   isComplete |-> isReceiptComplete(receipt)])
    /\ UNCHANGED <<receipts, nextId, restaurants, fin, lastFin>>

\* GET /:id/summary
GetSummary(p, id) ==
    /\ p \notin DOMAIN reqs
    /\ reqs' = Put(reqs, p,
         IF id \notin DOMAIN receipts
         THEN [pc |-> "done", op |-> "summary", id |-> id, status |-> 404]
         ELSE IF calculateSplitThrows(receipts[id])
         THEN [pc |-> "done", op |-> "summary", id |-> id, status |-> 500,
               receipt |-> receipts[id]]
         ELSE LET splits == calculateSplit(receipts[id])
                  receipt == AfterCalculateSplit(receipts[id])
              IN  [pc |-> "done", op |-> "summary", id |-> id,
                   status |-> 200,
                   receipt |-> receipt,
                   splits |-> splits,
                   summary |-> generateShareableSummary(receipt, splits)])
    /\ UNCHANGED <<receipts, nextId, restaurants, fin, lastFin>>

-----------------------------------------------------------------------------
(* The split service on stored receipts: a receipt as uploads, manual
   corrections (PUT /:id), people replacements and assignments may have left
   it, then reads and the two mutations that recompute the split. *)

MaxReads == 2         \* read requests in one history

Mia == [id |-> Me.id, name |-> "Mia"]     \* a second person sent with Me's id

SplitPeople == {<<>>, <<Me>>, <<Me, Bob>>, <<Me, Mia>>}

SplitAssign ==
    {<<>>, <<Me.id>>, <<Me.id, Bob.id>>, <<Bob.id>>, <<Me.id, Me.id>>}

Burger(a) ==
    [name |-> "Burger", quantity |-> 1, price |-> Num(12), assignedTo |-> a]
Fries(a) ==
    [name |-> "Fries", quantity |-> 2, price |-> Num(3), assignedTo |-> a]
Water(a) ==
    [name |-> "Water", quantity |-> 1, price |-> Zero, assignedTo |-> a]

SplitItems ==
    {<<>>, <<Water(<<Me.id>>)>>}
    \cup {<<Burger(a)>> : a \in SplitAssign}
    \cup {<<Burger(a), Fries(b)>> :
            a \in {<<>>, <<Me.id>>, <<Me.id, Bob.id>>},
            b \in {<<>>, <<Bob.id>>}}

\* the sum of price * quantity over the items
ItemsTotal(items) ==
    RSum([i \in DOMAIN items |->
            RMul(items[i].price, Num(items[i].quantity))])

Modes == {"equal", "proportional"}

\* tax and tip of a stored receipt
SplitCharges == {<<Num(2), Num(4)>>, <<Zero, Num(4)>>}

\* stored receipts: subtotal is what the extraction or a correction said,
\* the items' sum or not; total is subtotal + tax + tip or the subtotal
SplitReceiptsOf(items) ==
    { [restaurantName |-> "Joes", date |-> 1,
       items |-> items, people |-> people,
       subtotal |-> subtotal, tax |-> c[1], tip |-> c[2],
       total |-> IF whole THEN RAdd(RAdd(subtotal, c[1]), c[2])
                 ELSE subtotal,
       taxDistribution |-> tax, tipDistribution |-> tip,
       splitCalculations |-> <<>>, isComplete |-> FALSE] :
         people \in SplitPeople,
         subtotal \in {ItemsTotal(items), Num(12)},
         c \in SplitCharges,
         whole \in BOOLEAN, tax \in Modes, tip \in Modes }

SplitReceipts == UNION {SplitReceiptsOf(items) : items \in SplitItems}

InitSplit ==
    /\ receipts \in {[id \in {1} |-> r] : r \in SplitReceipts}
    /\ nextId = 2
    /\ restaurants = << >>
    /\ reqs = << >>
    /\ fin = [id \in AllIds |-> NoFin]
    /\ lastFin = NoCall

ReadRequests == 1..MaxReads

NextSplit ==
    \/ \E p \in ReadRequests, id \in ReceiptIds : GetSplit(p, id)
    \/ \E p \in ReadRequests, id \in ReceiptIds : GetSummary(p, id)
    \/ \E id \in ReceiptIds : AssignItem(id, 0, <<Me.id>>)
    \/ \E id \in ReceiptIds : SetDistribution(id, "equal", "")

SpecSplit == InitSplit /\ [][NextSplit]_vars

-----------------------------------------------------------------------------
(* TextractService.extractReceiptData: text detection, the OpenAI parser and,
   on its failure, the Textract fallback.  A run p keeps its local state in
   reqs[p]; ocr, structured and fallback record what the text detection and
   each parser did in the run.
   An error message is the sequence of its parts, wrappers first. *)

MaxRuns == 2          \* extraction runs in one history

\* the message parts in which the text 'OpenAI' occurs
PartsWithOpenAI ==
    {"Failed to parse receipt with OpenAI: ",
     "No response from OpenAI API",
     "Failed to parse OpenAI response as JSON",
     "Invalid receipt data structure from OpenAI"}

\* a test that no message passes
includesOpenAI_Never(message) == FALSE

\* a test that every message passes
includesOpenAI_Always(message) == TRUE

\* error.message.includes('OpenAI')
includesOpenAI(message) ==
    \E i \in DOMAIN message : message[i] \in PartsWithOpenAI

\* a LINE block: its Text and its Confidence
Line(text, confidence) == [text |-> text, confidence |-> confidence]

\* the text of a line is its words in order; a word is letters only
\* ("word"), digits only ("count", as 2), digits and an x ("countx", as 2x),
\* an amount with or without the dollar sign ("price", as $12.99) or a
\* numeric date ("date", as 01/15/2024); len is its length in characters and
\* cents a hundred times the first number written in it
Token(kind, text, len, cents) ==
    [kind |-> kind, text |-> text, len |-> len, cents |-> cents]

WJoes == Token("word", "Joes", 4, 0)
WBurger == Token("word", "Burger", 6, 0)
WFries == Token("word", "Fries", 5, 0)
WSubtotal == Token("word", "Subtotal", 8, 0)
WTax == Token("word", "Tax", 3, 0)
WTotal == Token("word", "Total", 5, 0)
WTwo == Token("count", "2", 1, 200)
WTwoX == Token("countx", "2x", 2, 200)
WJan15 == Token("date", "01/15/2024", 10, 100)
P1299 == Token("price", "$12.99", 6, 1299)
P450 == Token("price", "$4.50", 5, 450)
P1749 == Token("price", "$17.49", 6, 1749)
P140 == Token("price", "$1.40", 5, 140)
P1889 == Token("price", "$18.89", 6, 1889)

\* what textract.detectDocumentText / analyzeDocument may do: reject, answer
\* without Blocks, or answer with the LINE blocks of the image
TextractOutcomes ==
    { [kind |-> "rejects", message |-> <<"ProvisionedThroughputExceeded">>],
      [kind |-> "noBlocks"],
      [kind |-> "blocks", lines |-> <<>>],
      [kind |-> "blocks",
       lines |-> <<Line(<<WJoes>>, 99), Line(<<WBurger, P1299>>, 90)>>] }

\* a value of a field of the object the model answered with: undefined stands
\* for a field the object lacks
Undefined == [type |-> "undefined", value |-> Zero]
JsNum(a) == [type |-> "number", value |-> a]

\* x || d for a field that is undefined or a number
OrDefault(x, d) ==
    IF x.type = "undefined" \/ x.value = Zero THEN d ELSE x.value

\* a maximum that is its second argument
MathMax_Second(a, b) == b

\* Math.max(a, b)
MathMax(a, b) == IF RLt(a, b) THEN b ELSE a

\* the object of an answer: restaurantName "" stands for a missing name,
\* date 0 for a missing date, items.isArray FALSE for an items field that is
\* no array
JsonObject(restaurantName, isArray, quantity, price, amount) ==
    [restaurantName |-> restaurantName, date |-> 1,
     items |-> [isArray |-> isArray,
                elems |-> << [name |-> "Burger", quantity |-> quantity,
                              price |-> price] >>],
     subtotal |-> amount, tax |-> amount, tip |-> Undefined,
     total |-> amount]

EmptyObject ==
    [restaurantName |-> "", date |-> 0,
     items |-> [isArray |-> FALSE, elems |-> <<>>],
     subtotal |-> Undefined, tax |-> Undefined, tip |-> Undefined,
     total |-> Undefined]

GoodObject == JsonObject("Joes", TRUE, JsNum(Num(1)), JsNum(Num(12)),
                         JsNum(Num(12)))

\* the pieces of the text of an answer: prose without braces, an opening or a
\* closing brace, and the fields between the braces of an object
Prose == [t |-> "prose", value |-> EmptyObject]
Open == [t |-> "{", value |-> EmptyObject]
Close == [t |-> "}", value |-> EmptyObject]
Fields(object) == [t |-> "fields", value |-> object]

\* response.match(/\{[\s\S]*\}/): from the first opening brace to the last
\* closing brace after it; the whole text if there is none
jsonString(response) ==
    LET opens == {i \in DOMAIN response : response[i].t = "{"}
        first == CHOOSE i \in opens : \A j \in opens : i <= j
        closes == {i \in DOMAIN response :
                      response[i].t = "}" /\ opens # {} /\ i > first}
        last == CHOOSE i \in closes : \A j \in closes : j <= i
    IN  IF opens = {} \/ closes = {} THEN response
        ELSE SubSeq(response, first, last)

\* the nesting depth after the first n pieces
RECURSIVE Depth(_, _)
Depth(text, n) ==
    IF n = 0 THEN 0
    ELSE Depth(text, n - 1)
         + (IF text[n].t = "{" THEN 1 ELSE IF text[n].t = "}" THEN -1 ELSE 0)

\* JSON.parse accepts the text of one object: braces balanced, closed only by
\* the last piece, nothing but fields and objects inside
JSONparses(text) ==
    /\ text # <<>>
    /\ text[1].t = "{"
    /\ Depth(text, Len(text)) = 0
    /\ \A n \in 1..(Len(text) - 1) : Depth(text, n) >= 1
    /\ \A n \in DOMAIN text : text[n].t # "prose"

\* the object JSON.parse returns: the fields directly inside the outer braces
JSONparse(text) ==
    LET own == {n \in DOMAIN text :
                   text[n].t = "fields" /\ Depth(text, n) = 1}
    IN  IF own = {} THEN EmptyObject
        ELSE text[CHOOSE n \in own : \A m \in own : n <= m].value

\* what the chat completion may do: reject (transport error, timeout), answer
\* without content, or answer with content
Rejections ==
    { [kind |-> "rejects", message |-> <<"Connection error.">>],
      [kind |-> "rejects", message |-> <<"Request timed out.">>],
      [kind |-> "noContent"] }

Content(response) == [kind |-> "content", content |-> response]

\* answers that are no JSON, lack the restaurant name, have an items field
\* that is no array, or are as asked
OpenAIOutcomes ==
    Rejections \cup
    { Content(<<Prose>>),
      Content(<<Open, Fields(JsonObject("", TRUE, Undefined, Undefined,
                                        Undefined)), Close>>),
      Content(<<Open, Fields(JsonObject("Joes", FALSE, Undefined, Undefined,
                                        Undefined)), Close>>),
      Content(<<Open, Fields(GoodObject), Close>>) }

\* the error parseReceiptText throws for an outcome, <<>> if it returns
parseReceiptTextError(o) ==
    LET inner ==
          IF o.kind = "rejects" THEN o.message
          ELSE IF o.kind = "noContent" THEN <<"No response from OpenAI API">>
          ELSE IF ~JSONparses(jsonString(o.content))
               THEN <<"Failed to parse OpenAI response as JSON">>
          ELSE LET parsedData == JSONparse(jsonString(o.content))
               IN  IF parsedData.restaurantName = ""
                        \/ ~parsedData.items.isArray
                   THEN <<"Invalid receipt data structure from OpenAI">>
                   ELSE <<>>
    IN  IF inner = <<>> THEN <<>>
        ELSE <<"Failed to parse receipt with OpenAI: ">> \o inner

\* new Date().toISOString().split('T')[0]
Today == 2

\* the result parseReceiptText returns: defaults for missing fields, amounts
\* and prices at least 0, quantities at least 1
parseReceiptTextResult(o) ==
    LET parsedData == JSONparse(jsonString(o.content))
    IN  [restaurantName |-> parsedData.restaurantName,
         date |-> IF parsedData.date = 0 THEN Today ELSE parsedData.date,
         items |-> [i \in DOMAIN parsedData.items.elems |->
                      LET item == parsedData.items.elems[i]
                      IN  [name |-> IF item.name = "" THEN "Unknown Item"
                                    ELSE item.name,
                           quantity |->
                               MathMax(Num(1), OrDefault(item.quantity,
                                                         Num(1))),
                           price |->
                               MathMax(Zero, OrDefault(item.price, Zero))]],
         subtotal |-> MathMax(Zero, OrDefault(parsedData.subtotal, Zero)),
         tax |-> MathMax(Zero, OrDefault(parsedData.tax, Zero)),
         tip |-> MathMax(Zero, OrDefault(parsedData.tip, Zero)),
         total |-> MathMax(Zero, OrDefault(parsedData.total, Zero))]

\* the mean confidence parseTextractResponse computes; <<0, 0>> is NaN
avgConfidence(lines) ==
    IF lines = <<>> THEN <<0, 0>>
    ELSE RDiv(RSum([i \in DOMAIN lines |-> Num(lines[i].confidence)]),
              Num(Len(lines)))

\* the data extractReceiptData returns from the OpenAI parser's result
StructuredResult(textractOutput, o) ==
    LET parsedData == parseReceiptTextResult(o)
    IN  [restaurantName |-> parsedData.restaurantName,
         date |-> parsedData.date,
         items |-> [i \in DOMAIN parsedData.items |->
                      [name |-> parsedData.items[i].name,
                       quantity |-> parsedData.items[i].quantity,
                       price |-> parsedData.items[i].price,
                       confidence |-> Num(95)]],
         subtotal |-> parsedData.subtotal,
         tax |-> parsedData.tax,
         tip |-> parsedData.tip,
         total |-> parsedData.total,
         confidence |-> Num(95),
         rawData |-> [textractOutput |-> textractOutput,
                      openaiParsed |-> parsedData]]

\* lines.sort((a, b) => b.confidence - a.confidence): descending, lines of
\* equal confidence keep their order
RECURSIVE sortByConfidence(_)
sortByConfidence(lines) ==
    IF lines = <<>> THEN <<>>
    ELSE LET sorted == sortByConfidence(SubSeq(lines, 1, Len(lines) - 1))
             line == lines[Len(lines)]
             k == Cardinality({i \in DOMAIN sorted :
                                  sorted[i].confidence >= line.confidence})
         IN  SubSeq(sorted, 1, k) \o <<line>>
             \o SubSeq(sorted, k + 1, Len(sorted))

\* the lower-case substrings the parser looks for, by the word that has them
Substrings ==
    { <<"Subtotal", "subtotal">>, <<"Subtotal", "total">>,
      <<"Total", "total">>, <<"Tax", "tax">> }

\* text.toLowerCase().includes(s), and the case-insensitive month pattern
textIncludes(text, s) ==
    \E i \in DOMAIN text : <<text[i].text, s>> \in Substrings

MonthNames ==
    {"jan", "feb", "mar", "apr", "may", "jun", "jul", "aug", "sep", "oct",
     "nov", "dec"}

\* text.length: the words and the blanks between them
RECURSIVE textLength(_)
textLength(text) ==
    IF text = <<>> THEN 0
    ELSE IF Len(text) = 1 THEN text[1].len
    ELSE textLength(SubSeq(text, 1, Len(text) - 1)) + 1 + text[Len(text)].len

\* /\$?\d+\.?\d*/.test(text): the text has a digit
containsPrice(text) == \E i \in DOMAIN text : text[i].kind # "word"

isDateLine(text) ==
    \/ \E i \in DOMAIN text : text[i].kind = "date"
    \/ \E m \in MonthNames : textIncludes(text, m)

\* parseFloat and parseInt of the first number of a word
parseFloat(token) == Norm(token.cents, 100)
parseInt(token) == token.cents \div 100

\* the first line likely to be the name, <<>> if there is none
extractRestaurantName(lines) ==
    LET likely == {i \in DOMAIN lines :
                      /\ lines[i].confidence > 80
                      /\ textLength(lines[i].text) > 3
                      /\ ~containsPrice(lines[i].text)
                      /\ ~isDateLine(lines[i].text)}
    IN  IF likely = {} THEN <<>>
        ELSE lines[CHOOSE i \in likely : \A j \in likely : i <= j].text

\* the first date line, <<>> if there is none
extractDate(lines) ==
    LET dates == {i \in DOMAIN lines : isDateLine(lines[i].text)}
    IN  IF dates = {} THEN <<>>
        ELSE lines[CHOOSE i \in dates : \A j \in dates : i <= j].text

NoItem == [matched |-> FALSE, name |-> <<>>, quantity |-> 0, price |-> Zero]

\* the three patterns in order; every pattern ends in a blank and an amount
\* that runs to the end of the line
parseItemLine(text) ==
    LET n == Len(text)
        amount == n >= 1 /\ text[n].kind \in {"count", "price"}
    IN  IF amount /\ n >= 3 /\ text[1].kind \in {"count", "countx"}
        THEN [matched |-> TRUE, name |-> SubSeq(text, 2, n - 1),
              quantity |-> parseInt(text[1]), price |-> parseFloat(text[n])]
        ELSE IF amount /\ n >= 2
        THEN [matched |-> TRUE, name |-> SubSeq(text, 1, n - 1),
              quantity |-> 1, price |-> parseFloat(text[n])]
        ELSE IF amount /\ n >= 3 /\ text[n - 1].kind = "count"
        THEN [matched |-> TRUE, name |-> SubSeq(text, 1, n - 2),
              quantity |-> parseInt(text[n - 1]),
              price |-> parseFloat(text[n])]
        ELSE NoItem

\* every line that parses as an item, in the order of the lines given
extractItems(lines) ==
    LET matches == SelectSeq([i \in DOMAIN lines |-> i],
                       LAMBDA i : parseItemLine(lines[i].text).matched)
    IN  [k \in DOMAIN matches |->
            LET line == lines[matches[k]]
                itemMatch == parseItemLine(line.text)
            IN  [name |-> itemMatch.name, quantity |-> itemMatch.quantity,
                 price |-> itemMatch.price,
                 confidence |-> Num(line.confidence)]]

\* the field of totals a line sets, "" if none
totalsField(text) ==
    IF ~containsPrice(text) THEN ""
    ELSE IF textIncludes(text, "subtotal") \/ textIncludes(text, "sub total")
    THEN "subtotal"
    ELSE IF textIncludes(text, "tax") THEN "tax"
    ELSE IF textIncludes(text, "tip") \/ textIncludes(text, "gratuity")
    THEN "tip"
    ELSE IF textIncludes(text, "total") /\ ~textIncludes(text, "subtotal")
    THEN "total"
    ELSE ""

\* the first number of a line that has one
priceMatch(text) ==
    text[CHOOSE i \in DOMAIN text :
            /\ text[i].kind # "word"
            /\ \A j \in DOMAIN text : text[j].kind # "word" => i <= j]

\* the last line that sets a field decides it
extractTotals(lines) ==
    [field \in {"subtotal", "tax", "tip", "total"} |->
        LET hits == {i \in DOMAIN lines : totalsField(lines[i].text) = field}
        IN  IF hits = {} THEN Undefined
            ELSE JsNum(parseFloat(priceMatch(
                     lines[CHOOSE i \in hits : \A j \in hits : j <= i].text)))]

\* name, date, items and totals are all read from the sorted lines
parseTextractResponse(blocks) ==
    LET lines == sortByConfidence(blocks)
        totals == extractTotals(lines)
    IN  [restaurantName |-> extractRestaurantName(lines),
         date |-> extractDate(lines),
         items |-> extractItems(lines),
         subtotal |-> totals.subtotal, tax |-> totals.tax,
         tip |-> totals.tip, total |-> totals.total,
         confidence |-> avgConfidence(lines)]

\* the data extractReceiptDataFallback returns
FallbackResult(o) ==
    [field \in DOMAIN parseTextractResponse(o.lines) \cup {"rawData"} |->
        IF field = "rawData" THEN [Blocks |-> o.lines]
        ELSE parseTextractResponse(o.lines)[field]]

\* a catch that rethrows whatever it caught
ExtractCatch_AlwaysRethrows(r, message, raised) ==
    [r EXCEPT !.pc = "failed", !.structured = raised,
              !.error = <<"Failed to extract text from receipt: ">>
                        \o message]

\* a catch that falls back whatever it caught
ExtractCatch_AlwaysFallsBack(r, message, raised) ==
    [r EXCEPT !.pc = "fallback", !.structured = raised]

\* the catch of extractReceiptData
ExtractCatch(r, message, raised) ==
    IF includesOpenAI(message)
    THEN [r EXCEPT !.pc = "fallback", !.structured = raised]
    ELSE [r EXCEPT !.pc = "failed", !.structured = raised,
                   !.error = <<"Failed to extract text from receipt: ">>
                             \o message]

\* extractReceiptData is called with or without OPENAI_API_KEY in the
\* environment and awaits detectTextOnly
detectTextOnly(p, apiKey, o) ==
    /\ p \notin DOMAIN reqs
    /\ LET r == [pc |-> "detectText", apiKey |-> apiKey,
                 ocr |-> IF o.kind = "blocks" THEN "returned" ELSE "raised",
                 structured |-> "none", fallback |-> "none",
                 textractOutput |-> <<>>, response |-> <<>>,
                 error |-> <<>>, result |-> <<>>, status |-> 0]
           prefix == <<"Failed to detect text from receipt: ">>
       IN  reqs' = Put(reqs, p,
             IF o.kind = "rejects"
             THEN ExtractCatch(r, prefix \o o.message, "none")
             ELSE IF o.kind = "noBlocks"
             THEN ExtractCatch(r,
                      prefix \o <<"No text blocks found in the document">>,
                      "none")
             ELSE [r EXCEPT !.pc = "parse",
                            !.textractOutput =
                                [i \in DOMAIN o.lines |-> o.lines[i].text]])
    /\ UNCHANGED <<receipts, nextId, restaurants, fin, lastFin>>

\* new OpenAIService(), then await openaiService.parseReceiptText(...)
parseReceiptText(p, o) ==
    /\ p \in DOMAIN reqs
    /\ reqs[p].pc = "parse"
    /\ LET r == IF reqs[p].apiKey /\ o.kind = "content"
                THEN [reqs[p] EXCEPT !.response = o.content]
                ELSE reqs[p]
       IN  reqs' = [reqs EXCEPT ![p] =
             IF ~r.apiKey
             THEN ExtractCatch(r,
                      <<"OPENAI_API_KEY environment variable is required">>,
                      "raised")
             ELSE IF parseReceiptTextError(o) # <<>>
             THEN ExtractCatch(r, parseReceiptTextError(o), "raised")
             ELSE [r EXCEPT !.pc = "completed",
                            !.structured = "returned",
                            !.result =
                                StructuredResult(r.textractOutput, o)]]
    /\ UNCHANGED <<receipts, nextId, restaurants, fin, lastFin>>

\* return this.extractReceiptDataFallback(...): await analyzeDocument, then
\* parseTextractResponse
extractReceiptDataFallback(p, o) ==
    /\ p \in DOMAIN reqs
    /\ reqs[p].pc = "fallback"
    /\ LET r == reqs[p]
           prefix == <<"Failed to extract text from receipt: ">>
       IN  reqs' = [reqs EXCEPT ![p] =
             IF o.kind = "rejects"
             THEN [r EXCEPT !.pc = "failed", !.fallback = "raised",
                            !.error = prefix \o o.message]
             ELSE IF o.kind = "noBlocks"
             THEN [r EXCEPT !.pc = "failed", !.fallback = "raised",
                            !.error = prefix \o
                                <<"No text blocks found in the document">>]
             ELSE [r EXCEPT !.pc = "completed", !.fallback = "returned",
                            !.result = FallbackResult(o)]]
    /\ UNCHANGED <<receipts, nextId, restaurants, fin, lastFin>>

\* the name and the date the handler reads from a result: the names of the
\* documents are one word, and a line with a numeric date parses as a date
textString(text) == IF text = <<>> THEN "" ELSE text[1].text

dateOf(text) ==
    IF \E i \in DOMAIN text : text[i].kind = "date"
    THEN parseInt(priceMatch(text))
    ELSE 0

\* extractedData as POST /upload reads it
AsExtracted(r) ==
    IF r.structured = "returned"
    THEN [restaurantName |-> r.result.restaurantName,
          date |-> r.result.date,
          items |-> r.result.items,
          subtotal |-> r.result.subtotal, tax |-> r.result.tax,
          tip |-> r.result.tip, total |-> r.result.total]
    ELSE [restaurantName |-> textString(r.result.restaurantName),
          date |-> dateOf(r.result.date),
          items |-> r.result.items,
          subtotal |-> OrDefault(r.result.subtotal, Zero),
          tax |-> OrDefault(r.result.tax, Zero),
          tip |-> OrDefault(r.result.tip, Zero),
          total |-> OrDefault(r.result.total, Zero)]

\* POST /upload after extractReceiptData returned or threw: the receipt is
\* saved and 201 answered, or the catch answers 500
UploadAnswer(p, now) ==
    /\ p \in DOMAIN reqs
    /\ reqs[p].status = 0
    /\ reqs[p].pc \in {"completed", "failed"}
    /\ IF reqs[p].pc = "completed"
       THEN /\ UploadSave(AsExtracted(reqs[p]), now)
            /\ reqs' = [reqs EXCEPT ![p].status = 201]
       ELSE /\ reqs' = [reqs EXCEPT ![p].status = 500]
            /\ UNCHANGED <<receipts, nextId, restaurants, fin, lastFin>>

Runs == 1..MaxRuns

NextExtract ==
    \/ \E p \in Runs, apiKey \in BOOLEAN, o \in TextractOutcomes :
          detectTextOnly(p, apiKey, o)
    \/ \E p \in Runs, o \in OpenAIOutcomes : parseReceiptText(p, o)
    \/ \E p \in Runs, o \in TextractOutcomes :
          extractReceiptDataFallback(p, o)
    \/ \E p \in Runs, now \in Dates : UploadAnswer(p, now)

SpecExtract == Init /\ [][NextExtract]_vars

\* the parsers on more inputs, in one run

MaxParseRuns == 1

JsValues ==
    {Undefined, JsNum(Num(0 - 2)), JsNum(Zero), JsNum(<<1, 2>>),
     JsNum(Num(3))}

\* answers whose numbers are negative, zero, fractional or missing
NumericAnswers ==
    { Content(<<Open, Fields(JsonObject("Joes", TRUE, quantity, price,
                                        amount)), Close>>) :
         quantity \in JsValues, price \in JsValues, amount \in JsValues }

SecondObject == JsonObject("Cafe", TRUE, JsNum(Num(2)), JsNum(Num(5)),
                           JsNum(Num(10)))

\* answers with prose around the object, an object inside the object, a
\* closing brace or a second object in the prose after it, and an object that
\* is never closed
ProseAnswers ==
    { Content(<<Prose, Open, Fields(GoodObject), Close, Prose>>),
      Content(<<Open, Fields(GoodObject), Open, Close, Close>>),
      Content(<<Prose, Open, Fields(GoodObject), Close, Prose, Close>>),
      Content(<<Open, Fields(GoodObject), Close, Prose, Open,
                Fields(SecondObject), Close>>),
      Content(<<Prose, Open, Fields(GoodObject), Prose>>) }

ParseAnswers == OpenAIOutcomes \cup NumericAnswers \cup ProseAnswers

Confidences == {85, 95}

\* a receipt read top to bottom: name, date, two items, totals
ReceiptTexts ==
    << <<WJoes>>, <<WJan15>>, <<WBurger, P1299>>, <<WFries, P450>>,
       <<WSubtotal, P1749>>, <<WTax, P140>>, <<WTotal, P1889>> >>

\* items written with a quantity before or after the name
QuantityTexts ==
    << <<WJoes>>, <<WTwoX, WBurger, P1299>>, <<WTwo, WFries, P450>>,
       <<WBurger, WTwo, P1299>> >>

Document(texts, confidence) ==
    [kind |-> "blocks",
     lines |-> [i \in DOMAIN texts |-> Line(texts[i], confidence[i])]]

ParseDocuments ==
    TextractOutcomes
    \cup { Document(ReceiptTexts, confidence) :
              confidence \in [DOMAIN ReceiptTexts -> Confidences] }
    \cup { Document(QuantityTexts, [i \in DOMAIN QuantityTexts |-> 90]) }

NextParse ==
    \/ \E p \in 1..MaxParseRuns, apiKey \in BOOLEAN, o \in ParseDocuments :
          detectTextOnly(p, apiKey, o)
    \/ \E p \in 1..MaxParseRuns, o \in ParseAnswers : parseReceiptText(p, o)
    \/ \E p \in 1..MaxParseRuns, o \in ParseDocuments :
          extractReceiptDataFallback(p, o)
    \/ \E p \in 1..MaxParseRuns, now \in Dates : UploadAnswer(p, now)

SpecParse == Init /\ [][NextParse]_vars

-----------------------------------------------------------------------------
(* PUT /:id/items/:itemIndex/assign served concurrently: one step per await
   of the handler.  A request p keeps the document it read and the document
   it holds in reqs[p].  receipt.save() stores the handler's document; when
   the stored document changed since it was read, the save either is
   rejected (the version of the document moved on) or overwrites it. *)

\* the stored receipts the requests meet: two items, nobody assigned yet
AssignReceipts == SplitReceiptsOf(<<Burger(<<>>), Fries(<<>>)>>)

InitAssign ==
    /\ receipts \in {[id \in {1} |-> r] : r \in AssignReceipts}
    /\ nextId = 2
    /\ restaurants = << >>
    /\ reqs = << >>
    /\ fin = [id \in AllIds |-> NoFin]
    /\ lastFin = NoCall

\* await Receipt.findOne(...), the checks, the assignment and the split
AssignFindOne(p, id, itemIdx, assignedTo) ==
    /\ p \notin DOMAIN reqs
    /\ reqs' = Put(reqs, p,
         IF id \notin DOMAIN receipts
         THEN [pc |-> "done", op |-> "assign", id |-> id, status |-> 404]
         ELSE IF itemIdx >= Len(receipts[id].items)
         THEN [pc |-> "done", op |-> "assign", id |-> id, status |-> 400]
         ELSE IF calculateSplitThrows(
                     Assigned(receipts[id], itemIdx, assignedTo))
         THEN [pc |-> "done", op |-> "assign", id |-> id, status |-> 500]
         ELSE [pc |-> "save", op |-> "assign", id |-> id, status |-> 0,
               read |-> receipts[id],
               receipt |-> AssignSaved(receipts[id], itemIdx, assignedTo)])
    /\ UNCHANGED <<receipts, nextId, restaurants, fin, lastFin>>

\* await receipt.save(), then the answer
AssignSave(p, overwrites) ==
    /\ p \in DOMAIN reqs
    /\ reqs[p].pc = "save"
    /\ IF receipts[reqs[p].id] = reqs[p].read \/ overwrites
       THEN /\ receipts' = [receipts EXCEPT ![reqs[p].id] = reqs[p].receipt]
            /\ reqs' = [reqs EXCEPT ![p].pc = "done", ![p].status = 200]
       ELSE /\ reqs' = [reqs EXCEPT ![p].pc = "done", ![p].status = 500]
            /\ UNCHANGED receipts
    /\ UNCHANGED <<nextId, restaurants, fin, lastFin>>

NextAssign ==
    \/ \E p \in Requests, id \in 1..(MaxReceipts + 1), itemIdx \in 0..2,
          assignedTo \in AssignInputs :
          AssignFindOne(p, id, itemIdx, assignedTo)
    \/ \E p \in Requests, overwrites \in BOOLEAN : AssignSave(p, overwrites)

SpecAssign == InitAssign /\ [][NextAssign]_vars

-----------------------------------------------------------------------------
(* Uploads and deletions of receipts alone. *)

NextVisits ==
    \/ /\ nextId <= MaxVisitReceipts
       /\ \E x \in Extracted, now \in Dates : Upload(x, now)
    \/ \E id \in 1..MaxVisitReceipts : DeleteReceipt(id)

SpecVisits == Init /\ [][NextVisits]_vars

-----------------------------------------------------------------------------
(* The ledger with POST /restaurants/recalculate; finalize is called with
   the total of the "Me" person in the split of the receipt as it is
   stored. *)

\* the amount the client sends: the "Me" total of the split it was shown
currentMeTotal(receipt) ==
    MeTotal([receipt EXCEPT !.splitCalculations = calculateSplit(receipt)])

NextRecalc ==
    \/ /\ nextId <= MaxLedgerReceipts
       /\ \E x \in LedgerExtracted, now \in Dates : Upload(x, now)
    \/ \E id \in LedgerIds, people \in LedgerPeopleInputs :
          SetPeople(id, people)
    \/ \E id \in LedgerIds, assignedTo \in LedgerAssignInputs :
          AssignItem(id, 0, assignedTo)
    \/ \E id \in LedgerIds :
          /\ id \in DOMAIN receipts
          /\ ~calculateSplitThrows(receipts[id])
          /\ Finalize(id, currentMeTotal(receipts[id]))
    \/ \E id \in LedgerIds : DeleteReceipt(id)
    \/ Recalculate

SpecRecalc == Init /\ [][NextRecalc]_vars

-----------------------------------------------------------------------------

Spec == Init /\ [][Next]_vars

-----------------------------------------------------------------------------
(* The claims about the finalization ledger. *)

NameOf(id) == receipts[id].restaurantName

\* C1: in every history of operations on one receipt, at most one finalize
\* call increases the restaurant aggregate's totalSpent on behalf of that
\* receipt.
C1_FinalizeAddsAtMostOnce ==
    \A id \in AllIds : fin[id].applied <= 1

\* C2: two successive finalize calls with amounts a1 # a2 on a receipt that
\* was never finalized before and whose aggregate exists leave totalSpent at
\* its prior value plus a1.
C2_SecondFinalizeKeepsFirstAmount ==
    [][\A id \in ReceiptIds, a2 \in Amounts :
          ( /\ id \in DOMAIN receipts
            /\ NameOf(id) \in DOMAIN restaurants
            /\ lastFin.id = id
            /\ fin[id].calls = 1
            /\ ~RLt(a2, Zero)
            /\ a2 # fin[id].first
            /\ Finalize(id, a2) )
          => Spent(restaurants', NameOf(id))
                = RAdd(lastFin.before, fin[id].first)]_vars

\* C3: every finalize call with a valid amount on a receipt whose isComplete
\* flag is false increases the aggregate's totalSpent by exactly the amount
\* and sets the flag; on a receipt whose flag is already true it leaves
\* totalSpent unchanged and the flag true.
C3_FinalizeAddsWhenFlagFalse ==
    [][\A id \in ReceiptIds, a \in Amounts :
          (id \in DOMAIN receipts /\ ~RLt(a, Zero) /\ Finalize(id, a))
          => /\ receipts'[id].isComplete
             /\ IF ~receipts[id].isComplete
                THEN /\ NameOf(id) \in DOMAIN restaurants
                     /\ NameOf(id) \in DOMAIN restaurants'
                     /\ restaurants'[NameOf(id)].totalSpent
                          = RAdd(restaurants[NameOf(id)].totalSpent, a)
                ELSE restaurants' = restaurants]_vars

\* C3 as amended: a finalize call with a valid amount sets the flag; it adds
\* exactly the amount to the totalSpent of the receipt's aggregate when the
\* flag was false and that aggregate exists, and otherwise leaves every
\* aggregate as it was (none is created).
C3_FinalizeAddsWhenFlagFalseAndAggregate ==
    [][\A id \in ReceiptIds, a \in Amounts :
          (id \in DOMAIN receipts /\ ~RLt(a, Zero) /\ Finalize(id, a))
          => /\ receipts'[id].isComplete
             /\ IF ~receipts[id].isComplete
                   /\ NameOf(id) \in DOMAIN restaurants
                THEN restaurants' =
                       [restaurants EXCEPT ![NameOf(id)].totalSpent =
                            RAdd(@, a)]
                ELSE restaurants' = restaurants]_vars

\* a finalize call was served last, found the flag false and the aggregate
\* present, and totalSpent is what it found plus its amount
C3_Witness ==
    \E id \in DOMAIN receipts :
        /\ lastFin.id = id
        /\ fin[id].applied = 1
        /\ receipts[id].isComplete
        /\ NameOf(id) \in DOMAIN restaurants
        /\ restaurants[NameOf(id)].totalSpent = RAdd(lastFin.before, Num(2))

\* C4: two finalize requests for the same not-yet-finalized receipt that run
\* concurrently increase totalSpent exactly once on behalf of that receipt.
C4_ConcurrentFinalizeAddsOnce ==
    \A p \in DOMAIN reqs, q \in DOMAIN reqs :
        ( /\ p # q
          /\ reqs[p].id = reqs[q].id
          /\ reqs[p].pc = "done" /\ reqs[q].pc = "done"
          /\ ~reqs[p].receipt.isComplete /\ ~reqs[q].receipt.isComplete )
        => fin[reqs[p].id].applied = 1

RECURSIVE SumApplied(_)
SumApplied(ids) ==
    IF ids = {} THEN Zero
    ELSE LET o == CHOOSE x \in ids : TRUE
         IN  RAdd(fin[o].sum, SumApplied(ids \ {o}))

\* C5: in every reachable state an aggregate's totalSpent is the sum of the
\* amounts finalize applied for the existing receipts of that restaurant
\* (a receipt finalize never applied an amount for counts 0).
C5_TotalSpentIsFinalizedShares ==
    \A name \in DOMAIN restaurants :
        restaurants[name].totalSpent =
            SumApplied({id \in DOMAIN receipts : NameOf(id) = name})

\* C6: once a receipt's persisted isComplete flag is true it is true in every
\* later state.
C6_FlagStaysTrue ==
    [][\A id \in ReceiptIds :
          (id \in DOMAIN receipts /\ id \in DOMAIN receipts'
             /\ receipts[id].isComplete)
          => receipts'[id].isComplete]_vars

\* C7: a receipt's persisted isComplete flag changes from false to true only
\* in a finalize step.
C7_FlagSetOnlyByFinalize ==
    [][\A id \in ReceiptIds :
          (id \in DOMAIN receipts /\ id \in DOMAIN receipts'
             /\ ~receipts[id].isComplete /\ receipts'[id].isComplete)
          => \E a \in Amounts : Finalize(id, a)]_vars

\* C8: deleting a receipt subtracts from the aggregate's totalSpent exactly
\* the amount finalize added for that receipt (when the aggregate stays).
C8_DeleteSubtractsWhatFinalizeAdded ==
    [][\A id \in LedgerIds :
          (id \in DOMAIN receipts /\ DeleteReceipt(id)
             /\ NameOf(id) \in DOMAIN restaurants
             /\ NameOf(id) \in DOMAIN restaurants')
          => restaurants'[NameOf(id)].totalSpent
               = RSub(restaurants[NameOf(id)].totalSpent, fin[id].sum)]_vars

\* C9: after a receipt is deleted, the aggregate of its restaurant is removed
\* if no receipt of that restaurant remains, and otherwise exists with
\* lastVisit the date of the most recent remaining receipt.
C9_AggregateFollowsReceipts ==
    [][\A id \in LedgerIds :
          (id \in DOMAIN receipts /\ DeleteReceipt(id))
          => IF OthersOf(id) = {}
             THEN NameOf(id) \notin DOMAIN restaurants'
             ELSE /\ NameOf(id) \in DOMAIN restaurants'
                  /\ restaurants'[NameOf(id)].lastVisit
                       = MostRecentDate(OthersOf(id))]_vars

\* C9 as amended: deleting a receipt whose aggregate exists removes the
\* aggregate if its visitCount was at most 1 and otherwise keeps it, with
\* visitCount one less and lastVisit the date of the most recent remaining
\* receipt of the restaurant (unchanged if none remains); when no aggregate
\* exists none is created.
C9_AggregateFollowsVisitCount ==
    [][\A id \in LedgerIds :
          (id \in DOMAIN receipts /\ DeleteReceipt(id))
          => IF NameOf(id) \notin DOMAIN restaurants
                \/ restaurants[NameOf(id)].visitCount <= 1
             THEN NameOf(id) \notin DOMAIN restaurants'
             ELSE /\ NameOf(id) \in DOMAIN restaurants'
                  /\ restaurants'[NameOf(id)].visitCount
                       = restaurants[NameOf(id)].visitCount - 1
                  /\ restaurants'[NameOf(id)].lastVisit
                       = IF OthersOf(id) # {}
                         THEN MostRecentDate(OthersOf(id))
                         ELSE restaurants[NameOf(id)].lastVisit]_vars

\* the receipt uploaded second was deleted; the first receipt remains and
\* its aggregate has one visit left and lastVisit at that receipt's date
C9_Witness ==
    /\ nextId = 3
    /\ DOMAIN receipts = {1}
    /\ receipts[1].restaurantName = "Joes"
    /\ receipts[1].date = 1
    /\ DOMAIN restaurants = {"Joes"}
    /\ restaurants["Joes"].visitCount = 1
    /\ restaurants["Joes"].lastVisit = 1

\* C10: after every successful item assignment, people replacement or
\* distribution change the persisted splitCalculations is calculateSplit of
\* the persisted receipt.
C10_SplitsFollowEveryMutation ==
    [][\A id \in ReceiptIds :
          ( /\ id \in DOMAIN receipts
            /\ \/ \E people \in PeopleInputs : SetPeople(id, people)
               \/ \E i \in ItemIndexes, a \in AssignInputs :
                     AssignItem(id, i, a)
               \/ \E d \in DistributionInputs :
                     SetDistribution(id, d[1], d[2]) )
          => receipts'[id].splitCalculations
               = calculateSplit(receipts'[id])]_vars


-----------------------------------------------------------------------------
(* Item assignments and the people list. *)

PeopleIds(receipt) == {receipt.people[i].id : i \in DOMAIN receipt.people}

\* C11: in every reachable state every id in every item's assignedTo is the
\* id of a person in the receipt's people list.
C11_AssignedToReferencesPeople ==
    \A id \in DOMAIN receipts :
        \A i \in DOMAIN receipts[id].items :
            Range(receipts[id].items[i].assignedTo)
                \subseteq PeopleIds(receipts[id])

\* C12: an assignment request naming an id that is not in the receipt's
\* people list leaves the persisted receipt as it was.
C12_UnknownAssigneeRejected ==
    [][\A id \in ReceiptIds, itemIdx \in ItemIndexes, a \in AssignInputs :
          ( /\ id \in DOMAIN receipts
            /\ ~(Range(a) \subseteq PeopleIds(receipts[id]))
            /\ AssignItem(id, itemIdx, a) )
          => receipts' = receipts]_vars

-----------------------------------------------------------------------------
(* The claims about the split service. *)

\* C13: on a receipt whose people list is empty, item assignment, distribution
\* change, get split and summary each end in an error response and leave the
\* persisted receipt unchanged.
C13_EmptyPeopleEndsInError ==
    [][\A id \in ReceiptIds :
          (id \in DOMAIN receipts /\ receipts[id].people = <<>>)
          => /\ \A itemIdx \in ItemIndexes, a \in AssignInputs :
                   AssignItem(id, itemIdx, a)
                   => /\ receipts' = receipts
                      /\ AssignStatus(id, itemIdx, a) >= 400
             /\ \A d \in DistributionInputs :
                   SetDistribution(id, d[1], d[2])
                   => /\ receipts' = receipts
                      /\ DistributionStatus(id) = 500
             /\ \A p \in ReadRequests :
                   (GetSplit(p, id) \/ GetSummary(p, id))
                   => /\ receipts' = receipts
                      /\ reqs'[p].status = 500
                      /\ "splits" \notin DOMAIN reqs'[p]]_vars

\* both reads were answered for a receipt without people
C13_Witness ==
    /\ receipts[1].people = <<>>
    /\ DOMAIN reqs = ReadRequests
    /\ {reqs[p].op : p \in DOMAIN reqs} = {"split", "summary"}
    /\ \A p \in DOMAIN reqs : reqs[p].status = 500

\* the read requests that got a split
Answered == {p \in DOMAIN reqs : reqs[p].status = 200}

SumTotals(splits) == RSum([i \in DOMAIN splits |-> splits[i].total])

\* every item is assigned to a non-empty list of people of the receipt
FullyAssigned(receipt) ==
    \A i \in DOMAIN receipt.items :
        /\ receipt.items[i].assignedTo # <<>>
        /\ Range(receipt.items[i].assignedTo) \subseteq PeopleIds(receipt)

TotalAddsUp(receipt) ==
    receipt.total = RAdd(RAdd(receipt.subtotal, receipt.tax), receipt.tip)

\* C14 as claimed: for a receipt with at least one person, every item
\* assigned and total = subtotal + tax + tip, the totals calculateSplit
\* returns sum to receipt.total, in each of the four mode combinations.
C14_TotalsSumToReceiptTotal ==
    \A p \in Answered :
        (FullyAssigned(reqs[p].receipt) /\ TotalAddsUp(reqs[p].receipt))
        => SumTotals(reqs[p].splits) = reqs[p].receipt.total

\* what else the sum needs: the recorded subtotal is the items' sum, no two
\* people share an id, and a charge distributed proportionally has a positive
\* allocated subtotal to follow (or is 0)
SplitPreconditions(receipt) ==
    /\ FullyAssigned(receipt)
    /\ TotalAddsUp(receipt)
    /\ receipt.subtotal = ItemsTotal(receipt.items)
    /\ Cardinality(PeopleIds(receipt)) = Len(receipt.people)
    /\ receipt.taxDistribution = "proportional"
         => (RLt(Zero, receipt.subtotal) \/ receipt.tax = Zero)
    /\ receipt.tipDistribution = "proportional"
         => (RLt(Zero, receipt.subtotal) \/ receipt.tip = Zero)

\* C14 as amended: under these preconditions the totals calculateSplit
\* returns sum to receipt.total, in each of the four mode combinations.
C14_TotalsSumUnderPreconditions ==
    \A p \in Answered :
        SplitPreconditions(reqs[p].receipt)
        => SumTotals(reqs[p].splits) = reqs[p].receipt.total

\* a split was returned for two people sharing an item, tax proportional and
\* tip equal, and the preconditions hold
C14_Witness ==
    \E p \in Answered :
        /\ SplitPreconditions(reqs[p].receipt)
        /\ Len(reqs[p].receipt.people) = 2
        /\ Len(reqs[p].receipt.items) = 2
        /\ reqs[p].receipt.items[1].assignedTo = <<Me.id, Bob.id>>
        /\ reqs[p].receipt.taxDistribution = "proportional"
        /\ reqs[p].receipt.tipDistribution = "equal"
        /\ RLt(Zero, reqs[p].receipt.tax)

\* C15: in equal mode every person has an entry whose taxShare is
\* tax / |people|, and whose tipShare is tip / |people| when the tip mode is
\* equal, whatever the person's subtotal.
C15_EqualSharesIgnoreSubtotals ==
    \A p \in Answered :
        LET receipt == reqs[p].receipt
            splits == reqs[p].splits
        IN  /\ \A id \in PeopleIds(receipt) :
                  \E i \in DOMAIN splits : splits[i].personId = id
            /\ receipt.taxDistribution = "equal"
                 => \A i \in DOMAIN splits :
                       splits[i].taxShare
                         = RDiv(receipt.tax, Num(Len(receipt.people)))
            /\ receipt.tipDistribution = "equal"
                 => \A i \in DOMAIN splits :
                       splits[i].tipShare
                         = RDiv(receipt.tip, Num(Len(receipt.people)))

\* an equal split of a positive tax and tip was returned for two people, one
\* with all the items and one with none
C15_Witness ==
    \E p \in Answered :
        /\ reqs[p].receipt.taxDistribution = "equal"
        /\ reqs[p].receipt.tipDistribution = "equal"
        /\ RLt(Zero, reqs[p].receipt.tax)
        /\ Len(reqs[p].splits) = 2
        /\ RLt(Zero, reqs[p].splits[1].subtotal)
        /\ reqs[p].splits[2].subtotal = Zero
        /\ reqs[p].splits[2].items = <<>>

\* C16: in proportional mode, when no item is assigned to anyone,
\* calculateSplit returns (for a receipt with people) and every taxShare and
\* tipShare is 0, whatever tax and tip are.
C16_ProportionalSharesZeroWhenUnassigned ==
    \A p \in DOMAIN reqs :
        LET receipt == reqs[p].receipt
        IN  ( /\ "receipt" \in DOMAIN reqs[p]
              /\ receipt.people # <<>>
              /\ \A i \in DOMAIN receipt.items :
                     receipt.items[i].assignedTo = <<>> )
            => /\ p \in Answered
               /\ receipt.taxDistribution = "proportional"
                    => \A i \in DOMAIN reqs[p].splits :
                          reqs[p].splits[i].taxShare = Zero
               /\ receipt.tipDistribution = "proportional"
                    => \A i \in DOMAIN reqs[p].splits :
                          reqs[p].splits[i].tipShare = Zero

\* a proportional split of a positive tax and tip was returned for two people
\* and two unassigned items
C16_Witness ==
    \E p \in Answered :
        /\ reqs[p].receipt.taxDistribution = "proportional"
        /\ reqs[p].receipt.tipDistribution = "proportional"
        /\ RLt(Zero, reqs[p].receipt.tax)
        /\ RLt(Zero, reqs[p].receipt.tip)
        /\ Len(reqs[p].receipt.items) = 2
        /\ \A i \in DOMAIN reqs[p].receipt.items :
               reqs[p].receipt.items[i].assignedTo = <<>>
        /\ Len(reqs[p].splits) = 2

Unassigned(receipt) ==
    {i \in DOMAIN receipt.items : receipt.items[i].assignedTo = <<>>}

\* un lists exactly the items at the indexes in idx, in item order, projected
\* to name, price and quantity
ListsExactly(un, receipt, idx) ==
    /\ Len(un) = Cardinality(idx)
    /\ \E f \in [DOMAIN un -> idx] :
          /\ \A j, k \in DOMAIN un : j < k => f[j] < f[k]
          /\ \A k \in DOMAIN un :
                un[k] = [name |-> receipt.items[f[k]].name,
                         price |-> receipt.items[f[k]].price,
                         quantity |-> receipt.items[f[k]].quantity]

\* C18: isComplete(receipt) is true iff the receipt has at least one item and
\* unassignedItems(receipt) is empty, and unassignedItems returns exactly the
\* items whose assignedTo is empty.
C18_CompleteIffNothingUnassigned ==
    \A p \in Answered :
        reqs[p].op = "split"
        => /\ reqs[p].isComplete
                = (/\ Len(reqs[p].receipt.items) >= 1
                   /\ reqs[p].unassignedItems = <<>>)
           /\ ListsExactly(reqs[p].unassignedItems, reqs[p].receipt,
                           Unassigned(reqs[p].receipt))

\* one read saw a receipt with an assigned and an unassigned item, another
\* saw it with both items assigned
C18_Witness ==
    \E p, q \in Answered :
        /\ reqs[p].op = "split" /\ reqs[q].op = "split"
        /\ Len(reqs[p].receipt.items) = 2
        /\ Len(reqs[p].unassignedItems) = 1
        /\ ~reqs[p].isComplete
        /\ Len(reqs[q].receipt.items) = 2
        /\ reqs[q].isComplete

-----------------------------------------------------------------------------
(* The claims about the extraction. *)

\* the outcomes of the chat completion that the claim lists as recoverable
\* failures of the StructuredParser
RecoverableFailure(o) ==
    \/ o.kind = "rejects"
    \/ /\ o.kind = "content"
       /\ \/ ~JSONparses(jsonString(o.content))
          \/ JSONparse(jsonString(o.content)).restaurantName = ""
          \/ ~JSONparse(jsonString(o.content)).items.isArray

\* C19: when the StructuredParser fails recoverably the run goes on to the
\* FallbackParser, and when the FallbackParser returns the run completes with
\* the FallbackParser's result, which carries the Textract blocks and no
\* OpenAI answer.
C19_RecoverableFailureFallsBack ==
    [][\A p \in Runs :
          /\ \A o \in OpenAIOutcomes :
                (p \in DOMAIN reqs /\ reqs[p].apiKey /\ RecoverableFailure(o)
                   /\ parseReceiptText(p, o))
                => /\ reqs'[p].pc = "fallback"
                   /\ reqs'[p].structured = "raised"
          /\ \A o \in TextractOutcomes :
                (o.kind = "blocks" /\ extractReceiptDataFallback(p, o))
                => /\ reqs'[p].pc = "completed"
                   /\ reqs'[p].result = FallbackResult(o)
                   /\ DOMAIN reqs'[p].result.rawData = {"Blocks"}
                   /\ reqs[p].structured = "raised"]_vars

\* a run completed by the fallback after the OpenAI parser raised
C19_Witness ==
    \E p \in DOMAIN reqs :
        /\ reqs[p].pc = "completed"
        /\ reqs[p].structured = "raised"
        /\ reqs[p].fallback = "returned"
        /\ reqs[p].result.rawData.Blocks # <<>>

\* C20 as claimed: a run ends failed only if the StructuredParser raised and
\* the FallbackParser raised as well, and a run in which either parser
\* returned a result ends completed.
C20_FailedOnlyIfBothRaised ==
    \A p \in DOMAIN reqs :
        /\ reqs[p].pc = "failed"
             => (reqs[p].structured = "raised" /\ reqs[p].fallback = "raised")
        /\ (reqs[p].structured = "returned" \/ reqs[p].fallback = "returned")
             => reqs[p].pc = "completed"

\* C20 as amended: a run ends failed only if the text detection raised, or
\* the OpenAI parser could not be constructed for lack of its API key, or the
\* StructuredParser raised and the FallbackParser raised as well; a run in
\* which either parser returned a result ends completed.
C20_FailedOnlyIfAStageRaised ==
    \A p \in DOMAIN reqs :
        /\ reqs[p].pc = "failed"
             => \/ reqs[p].ocr = "raised"
                \/ ~reqs[p].apiKey /\ reqs[p].structured = "raised"
                \/ reqs[p].structured = "raised"
                     /\ reqs[p].fallback = "raised"
        /\ (reqs[p].structured = "returned" \/ reqs[p].fallback = "returned")
             => reqs[p].pc = "completed"

\* one run failed after both parsers raised, another completed with the
\* OpenAI parser's result
C20_Witness ==
    \E p, q \in DOMAIN reqs :
        /\ reqs[p].pc = "failed"
        /\ reqs[p].apiKey
        /\ reqs[p].structured = "raised"
        /\ reqs[p].fallback = "raised"
        /\ reqs[q].pc = "completed"
        /\ reqs[q].structured = "returned"

\* the parser's result for the object of an answer
Clamped(p) == reqs[p].result.rawData.openaiParsed

NonNegative(a) == ~RLt(a, Zero)

\* C21: every receipt the StructuredParser returns has subtotal, tax, tip and
\* total at least 0 and, for every item, a price at least 0 and a quantity at
\* least 1, whatever numbers the answer held.
C21_AcceptedReceiptIsClamped ==
    \A p \in DOMAIN reqs :
        reqs[p].structured = "returned"
        => /\ NonNegative(Clamped(p).subtotal)
           /\ NonNegative(Clamped(p).tax)
           /\ NonNegative(Clamped(p).tip)
           /\ NonNegative(Clamped(p).total)
           /\ \A i \in DOMAIN Clamped(p).items :
                 /\ NonNegative(Clamped(p).items[i].price)
                 /\ ~RLt(Clamped(p).items[i].quantity, Num(1))
                 /\ NonNegative(reqs[p].result.items[i].price)
                 /\ ~RLt(reqs[p].result.items[i].quantity, Num(1))
           /\ NonNegative(reqs[p].result.total)

\* an accepted answer with a negative quantity, a negative price, negative
\* amounts and no tip
C21_Witness ==
    \E p \in DOMAIN reqs :
        /\ reqs[p].structured = "returned"
        /\ \E n \in DOMAIN reqs[p].response :
              LET object == reqs[p].response[n].value
              IN  /\ reqs[p].response[n].t = "fields"
                  /\ RLt(object.items.elems[1].quantity.value, Zero)
                  /\ RLt(object.items.elems[1].price.value, Zero)
                  /\ RLt(object.total.value, Zero)
                  /\ object.tip = Undefined
        /\ Clamped(p).items[1].quantity = Num(1)
        /\ Clamped(p).items[1].price = Zero
        /\ Clamped(p).total = Zero


\* the first balanced object of a text: from its first opening brace to the
\* brace that closes it
firstBalanced(response) ==
    LET opens == {i \in DOMAIN response : response[i].t = "{"}
        first == CHOOSE i \in opens : \A j \in opens : i <= j
        ends == {n \in DOMAIN response :
                    /\ opens # {}
                    /\ n > first
                    /\ Depth(SubSeq(response, first, n), n - first + 1) = 0}
    IN  IF opens = {} \/ ends = {} THEN <<>>
        ELSE SubSeq(response, first,
                    CHOOSE n \in ends : \A m \in ends : n <= m)

\* the text holds an object as asked for, with or without prose around it
HoldsObject(response) ==
    /\ firstBalanced(response) # <<>>
    /\ JSONparses(firstBalanced(response))
    /\ JSONparse(firstBalanced(response)).restaurantName # ""
    /\ JSONparse(firstBalanced(response)).items.isArray

\* C26: when the answer holds a JSON object surrounded by prose, the
\* StructuredParser returns the parse of the first balanced object, also
\* when the text after it holds further braces or a second object.
C26_FirstBalancedObjectParsed ==
    \A p \in DOMAIN reqs :
        HoldsObject(reqs[p].response)
        => /\ reqs[p].structured = "returned"
           /\ Clamped(p) = parseReceiptTextResult(
                              Content(firstBalanced(reqs[p].response)))

\* without a closing brace after the object the claim holds
C26_ParsedWhenNoBraceFollows ==
    \A p \in DOMAIN reqs :
        (/\ HoldsObject(reqs[p].response)
         /\ jsonString(reqs[p].response) = firstBalanced(reqs[p].response))
        => /\ reqs[p].structured = "returned"
           /\ Clamped(p) = parseReceiptTextResult(
                              Content(firstBalanced(reqs[p].response)))

\* a FallbackParser result for the lines of a receipt: name, date, items,
\* totals
OfReceipt(p) ==
    /\ reqs[p].fallback = "returned"
    /\ Len(reqs[p].result.rawData.Blocks) = Len(ReceiptTexts)
    /\ \A i \in DOMAIN ReceiptTexts :
          reqs[p].result.rawData.Blocks[i].text = ReceiptTexts[i]

\* C22: for a name line, a date line, item lines '<name> $<price>' and the
\* lines 'Subtotal', 'Tax' and 'Total' with their amounts, the FallbackParser
\* returns exactly the item lines as items, each with quantity 1, and
\* subtotal, tax and total as written on their lines.
C22_ItemsAreTheItemLines ==
    \A p \in DOMAIN reqs :
        OfReceipt(p)
        => /\ {reqs[p].result.items[i].name :
                  i \in DOMAIN reqs[p].result.items}
              = {<<WBurger>>, <<WFries>>}
           /\ Len(reqs[p].result.items) = 2
           /\ \A i \in DOMAIN reqs[p].result.items :
                 reqs[p].result.items[i].quantity = 1
           /\ reqs[p].result.subtotal = JsNum(<<1749, 100>>)
           /\ reqs[p].result.tax = JsNum(<<7, 5>>)
           /\ reqs[p].result.total = JsNum(<<1889, 100>>)

\* the totals of C22 alone
C22_TotalsAsWritten ==
    \A p \in DOMAIN reqs :
        OfReceipt(p)
        => /\ reqs[p].result.subtotal = JsNum(<<1749, 100>>)
           /\ reqs[p].result.tax = JsNum(<<7, 5>>)
           /\ reqs[p].result.total = JsNum(<<1889, 100>>)

\* C25: the FallbackParser returns the items in the reading order of their
\* lines, whatever the confidences of the lines.
C25_ItemsInReadingOrder ==
    \A p \in DOMAIN reqs :
        reqs[p].fallback = "returned"
        => reqs[p].result.items = extractItems(reqs[p].result.rawData.Blocks)

\* with equal confidences the items are in reading order
C25_ReadingOrderWhenConfidencesEqual ==
    \A p \in DOMAIN reqs :
        (/\ reqs[p].fallback = "returned"
         /\ \A i, j \in DOMAIN reqs[p].result.rawData.Blocks :
               reqs[p].result.rawData.Blocks[i].confidence
               = reqs[p].result.rawData.Blocks[j].confidence)
        => reqs[p].result.items = extractItems(reqs[p].result.rawData.Blocks)


\* a step of run p
StepOf(p) == p \in DOMAIN reqs' /\ (p \notin DOMAIN reqs \/ reqs'[p] # reqs[p])

\* C23: a run without the OpenAI credential fails for good: the parser's
\* failure ends the run, the FallbackParser is not run, and the upload
\* answers 500 and saves neither a receipt nor a restaurant.
C23_MissingCredentialIsFatal ==
    [][\A p \in Runs :
          (StepOf(p) /\ ~reqs'[p].apiKey)
          => /\ reqs'[p].fallback = "none"
             /\ reqs'[p].structured # "returned"
             /\ reqs'[p].pc \in {"parse", "failed"}
             /\ reqs'[p].result = <<>>
             /\ (p \in DOMAIN reqs /\ reqs[p].pc = "parse")
                   => reqs'[p].pc = "failed"
             /\ (p \in DOMAIN reqs /\ reqs[p].pc = "failed")
                   => reqs'[p].status = 500
             /\ receipts' = receipts
             /\ restaurants' = restaurants]_vars

\* an upload answered 500 after the text was detected and the parser could
\* not be constructed
C23_Witness ==
    \E p \in DOMAIN reqs :
        /\ ~reqs[p].apiKey
        /\ reqs[p].ocr = "returned"
        /\ reqs[p].structured = "raised"
        /\ reqs[p].fallback = "none"
        /\ reqs[p].pc = "failed"
        /\ reqs[p].status = 500

\* C24: in one run the StructuredParser is invoked at most once and the
\* FallbackParser at most once, the FallbackParser only after the
\* StructuredParser failed in that run; no step is taken again.
C24_EachParserAtMostOnce ==
    [][\A p \in Runs :
          /\ \A o \in OpenAIOutcomes :
                parseReceiptText(p, o)
                => /\ reqs[p].structured = "none"
                   /\ reqs[p].fallback = "none"
                   /\ reqs'[p].structured # "none"
                   /\ reqs'[p].pc # "parse"
          /\ \A o \in TextractOutcomes :
                extractReceiptDataFallback(p, o)
                => /\ reqs[p].structured = "raised"
                   /\ reqs[p].fallback = "none"
                   /\ reqs'[p].fallback # "none"
                   /\ reqs'[p].pc \in {"completed", "failed"}
          /\ (p \in DOMAIN reqs /\ reqs[p].pc \in {"completed", "failed"})
                => /\ reqs'[p].pc = reqs[p].pc
                   /\ reqs'[p].structured = reqs[p].structured
                   /\ reqs'[p].fallback = reqs[p].fallback]_vars

\* a run in which both parsers ran, one after the other, and a run that
\* ended with the first
C24_Witness ==
    \E p, q \in DOMAIN reqs :
        /\ reqs[p].structured = "raised"
        /\ reqs[p].fallback = "returned"
        /\ reqs[p].status = 201
        /\ reqs[q].structured = "returned"
        /\ reqs[q].fallback = "none"
        /\ reqs[q].status = 201


\* the contribution records of an entry for the item of a name
RecordsOf(entry, itemName) ==
    SelectSeq(entry.items, LAMBDA c : c.itemName = itemName)

\* the item is assigned to one or more people of the receipt, each once
AssignedToDistinctPeople(receipt, item) ==
    /\ Len(item.assignedTo) >= 1
    /\ Range(item.assignedTo) \subseteq PeopleIds(receipt)
    /\ Cardinality(Range(item.assignedTo)) = Len(item.assignedTo)

\* C27: an item with line total T = price * quantity assigned to k >= 1
\* distinct people of the receipt gives each assignee one contribution record
\* with fullPrice T, shareAmount T / k and sharedWith the other k - 1
\* assignees; every subtotal is the sum of the entry's shareAmounts; an item
\* assigned to nobody appears in no entry.
C27_ItemSharedEquallyAmongAssignees ==
    \A p \in Answered :
        LET receipt == reqs[p].receipt
            splits == reqs[p].splits
        IN  /\ \A n \in DOMAIN receipt.items :
                  LET item == receipt.items[n]
                      T == RMul(item.price, Num(item.quantity))
                      k == Len(item.assignedTo)
                  IN  /\ AssignedToDistinctPeople(receipt, item)
                         => \A a \in Range(item.assignedTo) :
                               \E i \in DOMAIN splits :
                                  LET recs == RecordsOf(splits[i], item.name)
                                  IN  /\ splits[i].personId = a
                                      /\ Len(recs) = 1
                                      /\ recs[1].fullPrice = T
                                      /\ recs[1].shareAmount
                                           = RDiv(T, Num(k))
                                      /\ Len(recs[1].sharedWith) = k - 1
                                      /\ Range(recs[1].sharedWith)
                                           = Range(item.assignedTo) \ {a}
                      /\ item.assignedTo = <<>>
                         => \A i \in DOMAIN splits :
                               RecordsOf(splits[i], item.name) = <<>>
            /\ \A i \in DOMAIN splits :
                  splits[i].subtotal
                    = RSum([c \in DOMAIN splits[i].items |->
                               splits[i].items[c].shareAmount])

\* a split was returned for a burger of 12 shared by two people, 6 each, and
\* fries assigned to nobody
C27_Witness ==
    \E p \in Answered :
        /\ Len(reqs[p].receipt.items) = 2
        /\ reqs[p].receipt.items[1].assignedTo = <<Me.id, Bob.id>>
        /\ reqs[p].receipt.items[2].assignedTo = <<>>
        /\ Len(reqs[p].splits) = 2
        /\ reqs[p].splits[1].subtotal = Num(6)
        /\ reqs[p].splits[1].items[1].sharedWith = <<Bob.id>>
        /\ reqs[p].splits[2].items[1].sharedWith = <<Me.id>>


\* C28: after two concurrent assignment requests on one receipt have both
\* completed, in every interleaving the stored splitCalculations and
\* isComplete are calculateSplit and isReceiptComplete of the stored items
\* and people.
C28_StoredSplitMatchesStoredItems ==
    (/\ \A p \in Requests : p \in DOMAIN reqs /\ reqs[p].pc = "done"
     /\ \E p \in Requests : reqs[p].status = 200)
    => \A id \in DOMAIN receipts :
          /\ receipts[id].splitCalculations = calculateSplit(receipts[id])
          /\ receipts[id].isComplete = isReceiptComplete(receipts[id])

\* two requests read the same document, assigned different items and both
\* saved
C28_Witness ==
    /\ \A p \in Requests : p \in DOMAIN reqs /\ reqs[p].status = 200
    /\ reqs[1].read = reqs[2].read
    /\ reqs[1].receipt.items[1].assignedTo = <<Me.id>>
    /\ reqs[2].receipt.items[2].assignedTo = <<Me.id, Bob.id>>


\* the existing receipts of a restaurant name
ReceiptsNamed(name) ==
    {id \in DOMAIN receipts : receipts[id].restaurantName = name}

\* C29: after uploads and deletions of receipts, an aggregate exists exactly
\* for the names that existing receipts have, and its visitCount is the
\* number of those receipts.
C29_VisitCountIsReceiptCount ==
    \A name \in RestaurantNames :
        /\ name \in DOMAIN restaurants <=> ReceiptsNamed(name) # {}
        /\ name \in DOMAIN restaurants
             => restaurants[name].visitCount
                  = Cardinality(ReceiptsNamed(name))

\* three receipts were uploaded and two deleted: one receipt and one visit
\* remain, and no aggregate without receipts
C29_Witness ==
    /\ nextId = 4
    /\ DOMAIN restaurants = {"Joes"}
    /\ Cardinality(ReceiptsNamed("Joes")) = 1
    /\ Cardinality(DOMAIN receipts) = 1
    /\ restaurants["Joes"].visitCount = 1


\* C30: in a state reached by uploads, people and assignment changes,
\* finalizations with the "Me" person's current split total and receipt
\* deletions, recalculate leaves the totalSpent of every aggregate as it
\* was.
C30_RecalculateKeepsTotalSpent ==
    [][Recalculate
         => \A name \in DOMAIN restaurants :
               restaurants'[name].totalSpent = restaurants[name].totalSpent]_vars

\* recalculate run again changes nothing: after it every totalSpent is the
\* total it would compute
C30_RecalculateTwiceIsOnce ==
    [][Recalculate
         => \A name \in DOMAIN restaurants :
               restaurants'[name].totalSpent = newTotal(name)]_vars

=============================================================================
